---- MODULE Spec2Model ----
(***************************************************************************)
(* Option scanner: the per-ticker pipeline of main.process_ticker, the     *)
(* five scanners, the Black-Scholes pricing functions they rest on, the    *)
(* implied-volatility solver, the two data providers and main's concurrent *)
(* run over several tickers.                                               *)
(*                                                                         *)
(* Numbers.  A Python float is modelled as a fixed-point integer counting  *)
(* millionths (ONE = 1.0), so that the 1e-6 floor of d1_d2 is the integer  *)
(* 1.  TLC integers are 32 bits wide: products and quotients are computed  *)
(* by Mul and Div, which split their operands so that no intermediate      *)
(* value leaves that range.  Where the source can produce an IEEE special  *)
(* value (a division by zero, the square root of a negative number) the    *)
(* value is a record, see Fin / NaN / Inf below.                           *)
(***************************************************************************)
EXTENDS Integers, Sequences, FiniteSets, TLC

VARIABLES pc, price, chain, df, iv_signals, uoa_signals, spread_signals,
          mispricing_signals, report, log, trace, bsIn, bsOut,
          poly, yf, feed, tasks

vars == <<pc, price, chain, df, iv_signals, uoa_signals, spread_signals,
          mispricing_signals, report, log, trace, bsIn, bsOut,
          poly, yf, feed, tasks>>

pipeVars == <<pc, price, chain, df, iv_signals, uoa_signals, spread_signals,
              mispricing_signals, report, log, trace>>

\* The fixed-point scale: ONE stands for the float 1.0, 1 for 1e-6.
ONE == 1000000

Abs(x) == IF x < 0 THEN -x ELSE x

Sign(x) == IF x < 0 THEN -1 ELSE IF x = 0 THEN 0 ELSE 1

\* np.maximum on scalars.
Max(a, b) == IF a >= b THEN a ELSE b

Min(a, b) == IF a <= b THEN a ELSE b

\* Float product a * b: floor(a*b / ONE), operands split in thousands.
Mul(a, b) ==
  LET ah == a \div 1000
      al == a % 1000
      bh == b \div 1000
      bl == b % 1000
  IN  ah * bh + ((ah * bl + al * bh + ((al * bl) \div 1000)) \div 1000)

\* Six decimal digits of r / d by long division, 0 <= r < d < 2*10^8.
RECURSIVE DivDigits(_, _, _, _)
DivDigits(r, d, k, acc) ==
  IF k = 0 THEN acc
  ELSE DivDigits((r * 10) % d, d, k - 1, acc * 10 + ((r * 10) \div d))

\* Float quotient a / d for a >= 0, d > 0 and a / d < 2147.
RECURSIVE Div(_, _)
Div(a, d) ==
  IF d >= 200000000 THEN Div(a \div 10, d \div 10)
  ELSE DivDigits(a % d, d, 6, a \div d)

\* Float quotient a / d, d # 0, saturated at +-cap (cap a whole number below
\* 2147): the quotients this is used for are only read through N and n,
\* which are constant far below that magnitude.
ClipDiv(a, d, cap) ==
  IF (Abs(a) \div cap) >= Abs(d) THEN Sign(a) * Sign(d) * cap * ONE
  ELSE Sign(a) * Sign(d) * Div(Abs(a), Abs(d))

RECURSIVE ISqrtIter(_, _)
ISqrtIter(m, x) ==
  LET y == (x + (m \div x)) \div 2
  IN  IF y >= x THEN x ELSE ISqrtIter(m, y)

\* Integer square root.
ISqrt(m) == IF m <= 0 THEN 0 ELSE ISqrtIter(m, m)

\* np.sqrt for x >= 0 (x below 21 * ONE), to four decimal places.
Sqrt(x) == ISqrt(x * 100) * 100

\* np.exp: the series to the sixth power on [-1/2, 1/2], squaring outside.
RECURSIVE Exp(_)
Exp(x) ==
  IF Abs(x) > ONE \div 2
  THEN LET h == Exp(x \div 2) IN Mul(h, h)
  ELSE LET p6 == ONE + (x \div 6)
           p5 == ONE + Mul(x \div 5, p6)
           p4 == ONE + Mul(x \div 4, p5)
           p3 == ONE + Mul(x \div 3, p4)
           p2 == ONE + Mul(x \div 2, p3)
       IN  ONE + Mul(x, p2)

\* np.log(S / K) for S > 0, K > 0: the ratio is brought into [1/2, 2] by
\* doubling, then ln = 2 atanh((S-K)/(S+K)) by its series.
RECURSIVE LogRatio(_, _)
LogRatio(S, K) ==
  IF 2 * S < K THEN LogRatio(2 * S, K) - 693147
  ELSE IF S > 2 * K THEN LogRatio(S, 2 * K) + 693147
  ELSE LET z  == ClipDiv(S - K, S + K, 1)
           z2 == Mul(z, z)
           p1 == (ONE \div 9)
           p2 == (ONE \div 7) + Mul(z2, p1)
           p3 == (ONE \div 5) + Mul(z2, p2)
           p4 == (ONE \div 3) + Mul(z2, p3)
           p5 == ONE + Mul(z2, p4)
       IN  2 * Mul(z, p5)

\* scipy.stats.norm.cdf at 0.0, 0.1, ..., 5.0.
CdfTable ==
  << 500000, 539828, 579260, 617911, 655422, 691462, 725747, 758036,
     788145, 815940, 841345, 864334, 884930, 903200, 919243, 933193,
     945201, 955435, 964070, 971283, 977250, 982136, 986097, 989276,
     991802, 993790, 995339, 996533, 997445, 998134, 998650, 999032,
     999313, 999517, 999663, 999767, 999841, 999892, 999928, 999952,
     999968, 999979, 999987, 999991, 999995, 999997, 999998, 999999,
     999999, 1000000, 1000000 >>

\* scipy.stats.norm.pdf at 0.0, 0.1, ..., 5.0.
PdfTable ==
  << 398942, 396953, 391043, 381388, 368270, 352065, 333225, 312254,
     289692, 266085, 241971, 217852, 194186, 171369, 149727, 129518,
     110921, 94049, 78950, 65616, 53991, 43984, 35475, 28327,
     22395, 17528, 13583, 10421, 7915, 5953, 4432, 3267,
     2384, 1723, 1232, 873, 612, 425, 292, 199,
     134, 89, 59, 39, 25, 16, 10, 6,
     4, 2, 1 >>

\* Linear interpolation in a table with step 0.1, for 0 <= a < 5 * ONE.
Interp(tab, a) ==
  LET i == a \div 100000
      f == (a % 100000) \div 100
  IN  tab[i + 1] + (((tab[i + 2] - tab[i + 1]) * f) \div 1000)

\* N = norm.cdf.
N(x) ==
  LET a == Abs(x)
      v == IF a >= 5 * ONE THEN ONE ELSE Interp(CdfTable, a)
  IN  IF x >= 0 THEN v ELSE ONE - v

\* n = norm.pdf.
n(x) ==
  LET a == Abs(x)
  IN  IF a >= 5 * ONE THEN 0 ELSE Interp(PdfTable, a)

(***************************************************************************)
(* models/black_scholes.py                                                 *)
(***************************************************************************)

\* d1_d2: S, sigma and T are floored to 1e-6 in local copies; K > 0.
d1_d2(S, K, T, r, sigma) ==
  LET Sf    == Max(S, 1)
      sigf  == Max(sigma, 1)
      Tf    == Max(T, 1)
      num   == LogRatio(Sf, K) + Mul(r + (Mul(sigf, sigf) \div 2), Tf)
      sqrtT == Sqrt(Tf)
      d1    == ClipDiv(ClipDiv(num, sigf, 2000), sqrtT, 2000)
      d2    == d1 - Mul(sigf, sqrtT)
  IN  [d1 |-> d1, d2 |-> d2]

\* bs_price: the price terms read the caller's S and T, not the floored
\* copies of d1_d2.
bs_price(S, K, T, r, sigma, option_type) ==
  LET d    == d1_d2(S, K, T, r, sigma)
      disc == Exp(-Mul(r, T))
  IN  IF option_type = "call"
      THEN Mul(S, N(d.d1)) - Mul(Mul(K, disc), N(d.d2))
      ELSE Mul(Mul(K, disc), N(-d.d2)) - Mul(S, N(-d.d1))

\* An IEEE double that may be non-finite: Fin(v) is the finite value v,
\* Inf(s) is s * infinity (s = 1 or -1), NaN is not-a-number.
Fin(v) == [k |-> "fin", v |-> v]

Inf(s) == [k |-> "inf", v |-> s]

NaN == [k |-> "nan", v |-> 0]

IsFinite(x) == x.k = "fin"

\* np.sqrt of a float scalar: nan (with a warning) below zero.
FSqrt(x) == IF x < 0 THEN NaN ELSE Fin(Sqrt(x))

FNeg(a) == IF a.k = "nan" THEN NaN ELSE [a EXCEPT !.v = -a.v]

\* a * b.  A product of two non-zero doubles of these magnitudes is not
\* zero, so a non-zero product is kept at least one unit from zero.
FMul(a, b) ==
  IF a.k = "nan" \/ b.k = "nan" THEN NaN
  ELSE IF a.k = "inf" \/ b.k = "inf"
       THEN IF a.v = 0 \/ b.v = 0 THEN NaN ELSE Inf(Sign(a.v) * Sign(b.v))
       ELSE LET m == Mul(a.v, b.v)
            IN  IF m = 0 /\ a.v # 0 /\ b.v # 0
                THEN Fin(Sign(a.v) * Sign(b.v))
                ELSE Fin(m)

\* a / b on numpy float64 scalars: x / 0 is +-inf, 0 / 0 is nan (a warning,
\* no exception).  A finite quotient is saturated at +-2000.
FDiv(a, b) ==
  IF a.k = "nan" \/ b.k = "nan" THEN NaN
  ELSE IF a.k = "inf"
       THEN IF b.k = "inf" THEN NaN
            ELSE Inf(a.v * (IF b.v < 0 THEN -1 ELSE 1))
       ELSE IF b.k = "inf" THEN Fin(0)
            ELSE IF b.v = 0
                 THEN IF a.v = 0 THEN NaN ELSE Inf(Sign(a.v))
                 ELSE Fin(ClipDiv(a.v, b.v, 2000))

FAdd(a, b) ==
  IF a.k = "nan" \/ b.k = "nan" THEN NaN
  ELSE IF a.k = "inf"
       THEN IF b.k = "inf" /\ b.v # a.v THEN NaN ELSE a
       ELSE IF b.k = "inf" THEN b ELSE Fin(a.v + b.v)

FSub(a, b) == FAdd(a, FNeg(b))

\* x / c for a whole number c > 0.
FDivBy(a, c) == IF a.k = "fin" THEN Fin(a.v \div c) ELSE a

\* calculate_greeks: d1 and d2 come from the floored copies inside d1_d2,
\* every other term reads the caller's S, T and sigma.
calculate_greeks(S, K, T, r, sigma, option_type) ==
  LET d     == d1_d2(S, K, T, r, sigma)
      sqrtT == FSqrt(T)
      nd1   == Fin(n(d.d1))
      disc  == Exp(-Mul(r, T))
      gamma == FDiv(nd1, FMul(FMul(Fin(S), Fin(sigma)), sqrtT))
      vega  == FDivBy(FMul(FMul(Fin(S), sqrtT), nd1), 100)
      decay == FDiv(FMul(FMul(Fin(S), nd1), Fin(sigma)),
                    FMul(Fin(2 * ONE), sqrtT))
      carry == Fin(Mul(Mul(Mul(r, K), disc),
                       IF option_type = "call" THEN N(d.d2) ELSE N(-d.d2)))
      rhoT  == Fin(Mul(Mul(Mul(K, T), disc),
                       IF option_type = "call" THEN N(d.d2) ELSE N(-d.d2)))
  IN  IF option_type = "call"
      THEN [delta |-> Fin(N(d.d1)),
            gamma |-> gamma,
            theta |-> FDivBy(FSub(FNeg(decay), carry), 365),
            vega  |-> vega,
            rho   |-> FDivBy(rhoT, 100)]
      ELSE [delta |-> Fin(N(d.d1) - ONE),
            gamma |-> gamma,
            theta |-> FDivBy(FAdd(FNeg(decay), carry), 365),
            vega  |-> vega,
            rho   |-> FDivBy(FNeg(rhoT), 100)]

(***************************************************************************)
(* config.py                                                               *)
(***************************************************************************)
RISK_FREE_RATE == 45000

MIN_VOLUME == 50

IV_LOW_THRESHOLD == 200000

IV_HIGH_THRESHOLD == 800000

(***************************************************************************)
(* Data frames.  A polars DataFrame is a record of its column names and    *)
(* its rows in order; a row is a record with one field per column.         *)
(***************************************************************************)

\* A provider record's optional number: Null is None, <<v>> the value v.
Null == <<>>

\* pl.lit(None) in a string column.
None == "None"

NoFrame == [cols |-> {}, rows |-> <<>>]

Range(s) == {s[i] : i \in DOMAIN s}

is_empty(frame) == Len(frame.rows) = 0

\* DataFrame.filter
filter(frame, keep(_)) == [frame EXCEPT !.rows = SelectSeq(frame.rows, keep)]

\* DataFrame.with_columns(expr.alias(name)): adds or replaces one column.
with_column(frame, name, expr(_)) ==
  [cols |-> frame.cols \cup {name},
   rows |-> [i \in DOMAIN frame.rows |->
               (name :> expr(frame.rows[i])) @@ frame.rows[i]]]

\* DataFrame.select
select(frame, names) ==
  [cols |-> names,
   rows |-> [i \in DOMAIN frame.rows |-> [c \in names |-> frame.rows[i][c]]]]

\* DataFrame.rename({old: new})
rename(frame, old, new) ==
  [cols |-> (frame.cols \ {old}) \cup {new},
   rows |-> [i \in DOMAIN frame.rows |->
               (new :> frame.rows[i][old]) @@
               [c \in (DOMAIN frame.rows[i]) \ {old} |-> frame.rows[i][c]]]]

RECURSIVE JoinRows(_)
JoinRows(frames) ==
  IF Len(frames) = 0 THEN <<>> ELSE frames[1].rows \o JoinRows(Tail(frames))

RECURSIVE FirstPerContract(_)
FirstPerContract(rows) ==
  IF Len(rows) = 0 THEN <<>>
  ELSE LET front == FirstPerContract(SubSeq(rows, 1, Len(rows) - 1))
           last  == rows[Len(rows)]
       IN  IF \E j \in DOMAIN front :
                /\ front[j].symbol = last.symbol
                /\ front[j].strike = last.strike
                /\ front[j].expiry = last.expiry
                /\ front[j].type = last.type
           THEN front
           ELSE Append(front, last)

\* Mutant of concat: a concat followed by unique() on the contract key.
concat_unique(frames) ==
  [cols |-> frames[1].cols, rows |-> FirstPerContract(JoinRows(frames))]

\* pl.concat: the rows of the frames one after the other, none removed.
RECURSIVE concat(_)
concat(frames) ==
  IF Len(frames) = 1 THEN frames[1]
  ELSE LET rest == concat(Tail(frames))
       IN  [cols |-> frames[1].cols, rows |-> frames[1].rows \o rest.rows]

(***************************************************************************)
(* scanners/                                                               *)
(***************************************************************************)

\* Mutant of scan_iv: the liquidity filter is forgotten.
scan_iv_unfiltered(frame) ==
  [cols |-> frame.cols \cup {"signal"},
   rows |-> [i \in DOMAIN SelectSeq(frame.rows,
                 LAMBDA row : row.implied_volatility < IV_LOW_THRESHOLD) |->
               ("signal" :> "BUY_VOL") @@
               SelectSeq(frame.rows,
                 LAMBDA row : row.implied_volatility < IV_LOW_THRESHOLD)[i]]
            \o
            [i \in DOMAIN SelectSeq(frame.rows,
                 LAMBDA row : row.implied_volatility > IV_HIGH_THRESHOLD) |->
               ("signal" :> "SELL_VOL") @@
               SelectSeq(frame.rows,
                 LAMBDA row : row.implied_volatility > IV_HIGH_THRESHOLD)[i]]]

\* scan_iv
scan_iv(frame) ==
  LET liquid  == filter(frame, LAMBDA row : row.volume > 0)
      low_iv  == with_column(
                   filter(liquid,
                          LAMBDA row : row.implied_volatility < IV_LOW_THRESHOLD),
                   "signal", LAMBDA row : "BUY_VOL")
      high_iv == with_column(
                   filter(liquid,
                          LAMBDA row : row.implied_volatility > IV_HIGH_THRESHOLD),
                   "signal", LAMBDA row : "SELL_VOL")
  IN  concat(<<low_iv, high_iv>>)

\* Mutant of scan_uoa: the volume threshold is inclusive.
scan_uoa_inclusive(frame) ==
  [cols |-> frame.cols \cup {"signal"},
   rows |-> [i \in DOMAIN SelectSeq(frame.rows,
                 LAMBDA row : /\ row.volume > row.open_interest
                              /\ row.volume >= MIN_VOLUME) |->
               ("signal" :> "UOA_HIGH_VOL") @@
               SelectSeq(frame.rows,
                 LAMBDA row : /\ row.volume > row.open_interest
                              /\ row.volume >= MIN_VOLUME)[i]]]

\* scan_uoa
scan_uoa(frame) ==
  with_column(
    filter(frame, LAMBDA row : /\ row.volume > row.open_interest
                               /\ row.volume > MIN_VOLUME),
    "signal", LAMBDA row : "UOA_HIGH_VOL")

\* polars' float comparison x < c for a finite c: NaN is ordered above
\* every number, so NaN < c is false.
FLess(x, c) ==
  IF x.k = "nan" THEN FALSE
  ELSE IF x.k = "inf" THEN x.v < 0
  ELSE x.v < c

\* scan_spreads.  The liquidity_score column is read by nothing and is
\* left out.
scan_spreads(frame) ==
  LET f1 == with_column(frame, "spread",
                        LAMBDA row : row.ask_price - row.bid_price)
      f2 == with_column(f1, "spread_pct",
                        LAMBDA row : FDiv(Fin(row.ask_price - row.bid_price),
                                          Fin(row.ask_price)))
  IN  with_column(
        filter(f2, LAMBDA row : \/ row.spread < 100000
                                \/ FLess(row.spread_pct, 50000)),
        "spread_signal", LAMBDA row : "HIGH_QUALITY")

\* Mutant of delta_bucket: the boundaries are exclusive.
delta_bucket_strict(abs_delta) ==
  IF abs_delta > 700000 THEN "DEEP_ITM"
  ELSE IF abs_delta > 450000 THEN "DIRECTIONAL"
  ELSE IF abs_delta > 250000 THEN "SENSIBLE"
  ELSE IF abs_delta > 100000 THEN "LOTTO"
  ELSE "OTM_JUNK"

\* The when/then chain of scan_delta.
delta_bucket(abs_delta) ==
  IF abs_delta >= 700000 THEN "DEEP_ITM"
  ELSE IF abs_delta >= 450000 THEN "DIRECTIONAL"
  ELSE IF abs_delta >= 250000 THEN "SENSIBLE"
  ELSE IF abs_delta >= 100000 THEN "LOTTO"
  ELSE "OTM_JUNK"

\* scan_delta
scan_delta(frame) ==
  with_column(
    with_column(frame, "abs_delta", LAMBDA row : Abs(row.delta)),
    "delta_bucket", LAMBDA row : delta_bucket(row.abs_delta))

\* scan_mispricing
scan_mispricing(frame) ==
  IF "mispricing_signal" \notin frame.cols
  THEN [cols |-> frame.cols, rows |-> <<>>]
  ELSE filter(frame, LAMBDA row : row.mispricing_signal # None)

\* (expiry_date - today).days / 365.0; a contract's expiry is held as its
\* distance in days from today.
time_to_expiry(days) == (days * ONE) \div 365

\* valid_mask
valid_mask(T) == T > 1000

\* Mutant of theoretical_price: no mask, every row is priced at the T that
\* d1_d2 floors.
theoretical_price_unmasked(row, r) ==
  bs_price(row.S, row.strike, Max(row.T, 1), r, row.implied_volatility,
           row.type)

\* prices[...]: zero unless the row is a call or a put with a valid T.
theoretical_price(row, r) ==
  IF valid_mask(row.T) /\ row.type \in {"call", "put"}
  THEN bs_price(row.S, row.strike, row.T, r, row.implied_volatility, row.type)
  ELSE 0

\* Mutant of mispricing_tag: UNDERPRICED without the mid > 0 guard.
mispricing_tag_unguarded(mid, theo) ==
  IF mid * 10 < theo * 9 THEN "UNDERPRICED"
  ELSE IF mid * 10 > theo * 11 /\ mid > 0 THEN "OVERPRICED"
  ELSE None

\* The when/then chain that fills mispricing_signal.
mispricing_tag(mid, theo) ==
  IF mid * 10 < theo * 9 /\ mid > 0 THEN "UNDERPRICED"
  ELSE IF mid * 10 > theo * 11 /\ mid > 0 THEN "OVERPRICED"
  ELSE None

\* calculate_theoretical_price
calculate_theoretical_price(frame, underlying_price) ==
  LET f1 == with_column(frame, "S", LAMBDA row : underlying_price)
      f2 == with_column(f1, "expiry_date", LAMBDA row : row.expiry)
      f3 == with_column(f2, "T", LAMBDA row : time_to_expiry(row.expiry_date))
      f4 == with_column(f3, "theoretical_price",
                        LAMBDA row : theoretical_price(row, RISK_FREE_RATE))
      f5 == with_column(f4, "mid_price",
                        LAMBDA row : (row.bid_price + row.ask_price) \div 2)
  IN  with_column(f5, "mispricing_signal",
                  LAMBDA row : mispricing_tag(row.mid_price,
                                              row.theoretical_price))

(***************************************************************************)
(* The provider's answers.                                                 *)
(***************************************************************************)

\* The longest option chain the provider returns.
MaxChainLen == 2

Cents(c) == c * 10000

\* Spot 100.00.  Base earns no signal: volume below open interest, IV
\* between the thresholds, a wide spread, a mid price near the model price.
Base ==
  [symbol |-> 0, strike |-> Cents(9000), expiry |-> 30, type |-> "call",
   bid_price |-> Cents(1150), ask_price |-> Cents(1250),
   volume |-> 10, open_interest |-> 100,
   implied_volatility |-> <<500000>>, delta |-> <<500000>>]

DeltaCases ==
  << Null, <<0>>, <<99999>>, <<100000>>, <<249999>>, <<250000>>, <<449999>>,
     <<450000>>, <<699999>>, <<700000>>, <<-700000>>, <<-300000>>,
     <<1000000>> >>

\* <<volume, open_interest, implied_volatility>>
ActivityCases ==
  << <<10, 100, <<150000>>>>, <<10, 100, <<850000>>>>, <<10, 100, <<200000>>>>,
     <<10, 100, <<800000>>>>, <<0, 100, <<150000>>>>, <<0, 100, <<850000>>>>,
     <<10, 100, Null>>, <<0, 0, Null>>, <<200, 50, <<500000>>>>,
     <<40, 10, <<500000>>>>, <<50, 10, <<500000>>>>, <<51, 10, <<500000>>>>,
     <<51, 51, <<500000>>>>, <<200, 300, <<500000>>>>,
     <<200, 50, <<150000>>>> >>

\* <<strike, type, expiry>>
KindCases ==
  << <<Cents(9000), "call", 0>>, <<Cents(9000), "call", -1>>,
     <<Cents(11000), "put", 0>>, <<Cents(11000), "put", 30>>,
     <<Cents(11000), "call", 30>>, <<Cents(9000), "put", 30>>,
     <<Cents(9000), "call", 1>> >>

\* <<bid_price, ask_price>>
QuoteCases ==
  << <<0, 0>>, <<Cents(800), Cents(810)>>, <<Cents(1500), Cents(1600)>>,
     <<Cents(1200), Cents(1209)>>, <<Cents(50), 0>>,
     <<Cents(1000), Cents(1100)>>, <<Cents(200), Cents(210)>>,
     <<Cents(200), Cents(211)>> >>

Unnumbered ==
  <<Base>>
  \o [i \in DOMAIN DeltaCases |-> [Base EXCEPT !.delta = DeltaCases[i]]]
  \o [i \in DOMAIN ActivityCases |->
        [Base EXCEPT !.volume = ActivityCases[i][1],
                     !.open_interest = ActivityCases[i][2],
                     !.implied_volatility = ActivityCases[i][3]]]
  \o [i \in DOMAIN KindCases |->
        [Base EXCEPT !.strike = KindCases[i][1],
                     !.type = KindCases[i][2],
                     !.expiry = KindCases[i][3]]]
  \o [i \in DOMAIN QuoteCases |->
        [Base EXCEPT !.bid_price = QuoteCases[i][1],
                     !.ask_price = QuoteCases[i][2]]]

\* The contracts a chain is drawn from, each with its own symbol.
Pool == [i \in DOMAIN Unnumbered |-> [Unnumbered[i] EXCEPT !.symbol = i]]

\* Option chains: up to MaxChainLen distinct contracts of the pool.
Chains ==
  UNION {{[i \in 1..k |-> Pool[s[i]]] :
            s \in {t \in [1..k -> DOMAIN Pool] :
                     \A i \in 1..(k - 1) : t[i] < t[i + 1]}} :
         k \in 0..MaxChainLen}

\* Spot prices: the zero sentinel, and 100.00.
Prices == {0, 100 * ONE}

(***************************************************************************)
(* main.process_ticker                                                     *)
(***************************************************************************)

\* Mutant of StepOrder: scan_mispricing is called before the enrichment.
StepOrderMispricingFirst ==
  <<"scan_mispricing", "calculate_theoretical_price", "scan_iv", "scan_uoa",
    "scan_spreads", "scan_delta", "concat", "plot">>

\* The statements of process_ticker after the frame is built, in order.
StepOrder ==
  <<"calculate_theoretical_price", "scan_iv", "scan_uoa", "scan_spreads",
    "scan_delta", "scan_mispricing", "concat", "plot">>

\* The statement after step, "returned" after the last.
After(step) ==
  LET i == CHOOSE j \in DOMAIN StepOrder : StepOrder[j] = step
  IN  IF i = Len(StepOrder) THEN "returned" ELSE StepOrder[i + 1]

\* One logger call.
Line(level, msg) == [level |-> level, msg |-> msg]

Logged(level, msg) == Append(log, Line(level, msg))

\* Mutant of no_price: only a negative price is taken as the sentinel.
no_price_negative(p) == p < 0

\* if price == 0
no_price(p) == p = 0

\* if not chain
no_chain(c) == Len(c) = 0

\* price = await provider.get_stock_price(ticker)
FetchPrice ==
  /\ pc = "start"
  /\ \E p \in Prices :
       /\ price' = p
       /\ IF no_price(p)
          THEN /\ log' = <<Line("info", "Fetching data"),
                            Line("error", "Could not fetch price. Skipping.")>>
               /\ pc' = "returned"
          ELSE /\ log' = <<Line("info", "Fetching data"),
                            Line("info", "Spot Price")>>
               /\ pc' = "get_option_chain"
  /\ trace' = Append(trace, "get_stock_price")
  /\ UNCHANGED <<chain, df, iv_signals, uoa_signals, spread_signals,
                 mispricing_signals, report, bsIn, bsOut,
                 poly, yf, feed, tasks>>

\* chain = await provider.get_option_chain(ticker)
FetchChain ==
  /\ pc = "get_option_chain"
  /\ \E c \in Chains :
       /\ chain' = c
       /\ IF no_chain(c)
          THEN /\ log' = Logged("warning", "No options data")
               /\ pc' = "returned"
          ELSE /\ log' = log
               /\ pc' = "DataFrame"
  /\ trace' = Append(trace, "get_option_chain")
  /\ UNCHANGED <<price, df, iv_signals, uoa_signals, spread_signals,
                 mispricing_signals, report, bsIn, bsOut,
                 poly, yf, feed, tasks>>

\* cast(pl.Float64).fill_null(0.0) on an optional number.
fill_null(x) == IF x = Null THEN 0 ELSE x[1]

\* df = pl.DataFrame(chain), then every numeric column cast and null-filled.
DataFrame(c) ==
  [cols |-> DOMAIN Base,
   rows |-> [i \in DOMAIN c |->
               [c[i] EXCEPT !.implied_volatility = fill_null(@),
                            !.delta = fill_null(@)]]]

BuildFrame ==
  /\ pc = "DataFrame"
  /\ df' = DataFrame(chain)
  /\ log' = Logged("info", "Processing contracts")
  /\ pc' = StepOrder[1]
  /\ trace' = Append(trace, "DataFrame")
  /\ UNCHANGED <<price, chain, iv_signals, uoa_signals, spread_signals,
                 mispricing_signals, report, bsIn, bsOut,
                 poly, yf, feed, tasks>>

Enrich ==
  /\ pc = "calculate_theoretical_price"
  /\ df' = calculate_theoretical_price(df, price)
  /\ pc' = After(pc)
  /\ trace' = Append(trace, pc)
  /\ UNCHANGED <<price, chain, iv_signals, uoa_signals, spread_signals,
                 mispricing_signals, report, log, bsIn, bsOut,
                 poly, yf, feed, tasks>>

ScanIV ==
  /\ pc = "scan_iv"
  /\ iv_signals' = scan_iv(df)
  /\ pc' = After(pc)
  /\ trace' = Append(trace, pc)
  /\ UNCHANGED <<price, chain, df, uoa_signals, spread_signals,
                 mispricing_signals, report, log, bsIn, bsOut,
                 poly, yf, feed, tasks>>

ScanUOA ==
  /\ pc = "scan_uoa"
  /\ uoa_signals' = scan_uoa(df)
  /\ pc' = After(pc)
  /\ trace' = Append(trace, pc)
  /\ UNCHANGED <<price, chain, df, iv_signals, spread_signals,
                 mispricing_signals, report, log, bsIn, bsOut,
                 poly, yf, feed, tasks>>

ScanSpreads ==
  /\ pc = "scan_spreads"
  /\ spread_signals' = scan_spreads(df)
  /\ pc' = After(pc)
  /\ trace' = Append(trace, pc)
  /\ UNCHANGED <<price, chain, df, iv_signals, uoa_signals,
                 mispricing_signals, report, log, bsIn, bsOut,
                 poly, yf, feed, tasks>>

ScanDelta ==
  /\ pc = "scan_delta"
  /\ df' = scan_delta(df)
  /\ pc' = After(pc)
  /\ trace' = Append(trace, pc)
  /\ UNCHANGED <<price, chain, iv_signals, uoa_signals, spread_signals,
                 mispricing_signals, report, log, bsIn, bsOut,
                 poly, yf, feed, tasks>>

ScanMispricing ==
  /\ pc = "scan_mispricing"
  /\ mispricing_signals' = scan_mispricing(df)
  /\ pc' = After(pc)
  /\ trace' = Append(trace, pc)
  /\ UNCHANGED <<price, chain, df, iv_signals, uoa_signals, spread_signals,
                 report, log, bsIn, bsOut,
                 poly, yf, feed, tasks>>

ReportCols == {"symbol", "strike", "expiry", "type", "signal"}

\* all_signals: the non-empty scanner outputs, reduced to the report columns.
all_signals(iv, uoa, spread, mispricing) ==
  (IF is_empty(iv) THEN <<>> ELSE <<select(iv, ReportCols)>>)
  \o (IF is_empty(uoa) THEN <<>> ELSE <<select(uoa, ReportCols)>>)
  \o (IF is_empty(spread) THEN <<>>
      ELSE <<select(rename(spread, "spread_signal", "signal"), ReportCols)>>)
  \o (IF is_empty(mispricing) THEN <<>>
      ELSE <<select(rename(mispricing, "mispricing_signal", "signal"),
                    ReportCols)>>)

\* report_df = pl.concat(all_signals), written to the report file; or the
\* "no signals" line.
Aggregate ==
  /\ pc = "concat"
  /\ LET all == all_signals(iv_signals, uoa_signals, spread_signals,
                            mispricing_signals)
     IN  IF Len(all) > 0
         THEN /\ report' = concat(all)
              /\ log' = Logged("info", "Saved signals report")
         ELSE /\ report' = report
              /\ log' = Logged("info", "No significant signals found")
  /\ pc' = After(pc)
  /\ trace' = Append(trace, pc)
  /\ UNCHANGED <<price, chain, df, iv_signals, uoa_signals, spread_signals,
                 mispricing_signals, bsIn, bsOut,
                 poly, yf, feed, tasks>>

\* plot_iv_smile, plot_delta_heatmap, plot_volume_oi
Charts ==
  /\ pc = "plot"
  /\ log' = Logged("info", "Charts generated")
  /\ pc' = After(pc)
  /\ trace' = Append(trace, pc)
  /\ UNCHANGED <<price, chain, df, iv_signals, uoa_signals, spread_signals,
                 mispricing_signals, report, bsIn, bsOut,
                 poly, yf, feed, tasks>>

Init ==
  /\ pc = "start"
  /\ price = 0
  /\ chain = <<>>
  /\ df = NoFrame
  /\ iv_signals = NoFrame
  /\ uoa_signals = NoFrame
  /\ spread_signals = NoFrame
  /\ mispricing_signals = NoFrame
  /\ report = NoFrame
  /\ log = <<>>
  /\ trace = <<>>
  /\ bsIn = <<>>
  /\ bsOut = [fn |-> "none"]
  /\ poly = [fn |-> "none"]
  /\ yf = [fn |-> "none"]
  /\ feed = <<>>
  /\ tasks = <<>>

Next ==
  \/ FetchPrice
  \/ FetchChain
  \/ BuildFrame
  \/ Enrich
  \/ ScanIV
  \/ ScanUOA
  \/ ScanSpreads
  \/ ScanDelta
  \/ ScanMispricing
  \/ Aggregate
  \/ Charts

Spec == Init /\ [][Next]_vars

(***************************************************************************)
(* The pricing functions on their own: bs_price and calculate_greeks       *)
(* applied to inputs that include non-positive S, T and sigma.             *)
(***************************************************************************)

\* S in {-1, 0, 100}, K in {90, 110}, T in {-1 day, 0, 30 days},
\* sigma in {-0.1, 0, 0.2}.
BsInputs ==
  [S : {-ONE, 0, 100 * ONE}, K : {90 * ONE, 110 * ONE},
   T : {time_to_expiry(-1), 0, time_to_expiry(30)},
   sigma : {-100000, 0, 200000}, type : {"call", "put"}]

InitBS ==
  /\ pc = "start"
  /\ price = 0
  /\ chain = <<>>
  /\ df = NoFrame
  /\ iv_signals = NoFrame
  /\ uoa_signals = NoFrame
  /\ spread_signals = NoFrame
  /\ mispricing_signals = NoFrame
  /\ report = NoFrame
  /\ log = <<>>
  /\ trace = <<>>
  /\ bsIn \in BsInputs
  /\ bsOut = [fn |-> "none"]
  /\ poly = [fn |-> "none"]
  /\ yf = [fn |-> "none"]
  /\ feed = <<>>
  /\ tasks = <<>>

CallBsPrice ==
  /\ bsOut.fn = "none"
  /\ bsOut' = [fn |-> "bs_price",
               value |-> bs_price(bsIn.S, bsIn.K, bsIn.T, RISK_FREE_RATE,
                                  bsIn.sigma, bsIn.type)]
  /\ UNCHANGED <<pipeVars, bsIn, poly, yf, feed, tasks>>

CallGreeks ==
  /\ bsOut.fn = "none"
  /\ bsOut' = [fn |-> "calculate_greeks",
               value |-> calculate_greeks(bsIn.S, bsIn.K, bsIn.T,
                                          RISK_FREE_RATE, bsIn.sigma,
                                          bsIn.type)]
  /\ UNCHANGED <<pipeVars, bsIn, poly, yf, feed, tasks>>

NextBS == CallBsPrice \/ CallGreeks

SpecBS == InitBS /\ [][NextBS]_vars

(***************************************************************************)
(* implied_volatility: the Newton-Raphson loop, one action per pass.       *)
(***************************************************************************)

\* tol=1e-5
tol == 10

\* max_iter=100
max_iter == 100

\* sigma = 0.5  # Initial guess
initial_guess == ONE \div 2

\* n(d1) as a double.  norm.pdf underflows to exactly 0.0 only beyond
\* |d1| = 38.6; a density below the fixed-point resolution is kept one unit
\* from zero.
pdf(d1) ==
  IF Abs(d1) > 38600000 THEN Fin(0) ELSE Fin(Max(n(d1), 1))

\* vega = S * np.sqrt(T) * n(d1): the caller's S and T, unscaled.
iv_vega(S, K, T, r, sigma) ==
  FMul(FMul(Fin(S), FSqrt(T)), pdf(d1_d2(S, K, T, r, sigma).d1))

\* max(1e-4, min(sigma, 5.0)) with Python's min and max: min(nan, 5.0) is
\* nan and max(1e-4, nan) is 1e-4.
clamp_sigma(x) ==
  IF x.k = "nan" THEN 100
  ELSE IF x.k = "inf" THEN (IF x.v > 0 THEN 5 * ONE ELSE 100)
  ELSE Max(100, Min(x.v, 5 * ONE))

\* The loop body without the clamp.
iv_step_unclamped(market, S, K, T, r, sigma, option_type) ==
  LET diff == market - bs_price(S, K, T, r, sigma, option_type)
      vega == iv_vega(S, K, T, r, sigma)
      next == FAdd(Fin(sigma), FDiv(Fin(diff), vega))
  IN  IF Abs(diff) < tol THEN [how |-> "return", sigma |-> sigma]
      ELSE IF vega = Fin(0) THEN [how |-> "break", sigma |-> sigma]
      ELSE [how |-> "continue",
            sigma |-> IF IsFinite(next) THEN next.v ELSE 100]

\* The loop body with the tolerance test on diff instead of abs(diff).
iv_step_signed(market, S, K, T, r, sigma, option_type) ==
  LET diff == market - bs_price(S, K, T, r, sigma, option_type)
      vega == iv_vega(S, K, T, r, sigma)
  IN  IF diff < tol THEN [how |-> "return", sigma |-> sigma]
      ELSE IF vega = Fin(0) THEN [how |-> "break", sigma |-> sigma]
      ELSE [how |-> "continue",
            sigma |-> clamp_sigma(FAdd(Fin(sigma), FDiv(Fin(diff), vega)))]

\* One pass of the loop body at the current sigma: return, break, or the
\* clamped update.
iv_step(market, S, K, T, r, sigma, option_type) ==
  LET diff == market - bs_price(S, K, T, r, sigma, option_type)
      vega == iv_vega(S, K, T, r, sigma)
  IN  IF Abs(diff) < tol THEN [how |-> "return", sigma |-> sigma]
      ELSE IF vega = Fin(0) THEN [how |-> "break", sigma |-> sigma]
      ELSE [how |-> "continue",
            sigma |-> clamp_sigma(FAdd(Fin(sigma), FDiv(Fin(diff), vega)))]

\* Round trips: the market price is bs_price at a known sigma (0.00005,
\* 0.2, 0.8 or 6.0), for S = 100, K in {50, 90, 100, 110}, T in {0, 30 days}.
RoundTrips ==
  {[price |-> bs_price(100 * ONE, K, T, RISK_FREE_RATE, sg, ty),
    S |-> 100 * ONE, K |-> K, T |-> T, type |-> ty, sigma |-> <<sg>>] :
     K \in {50 * ONE, 90 * ONE, 100 * ONE, 110 * ONE},
     T \in {0, time_to_expiry(30)},
     sg \in {50, 200000, 800000, 6 * ONE},
     ty \in {"call", "put"}}

\* Quoted prices that need not be the price of any sigma: 0, 5.00 and
\* 200.00, with S in {0, 100}, K in {90, 110}, T in {-1 day, 30 days}.
Quotes ==
  [price : {0, Cents(500), Cents(20000)}, S : {0, 100 * ONE},
   K : {90 * ONE, 110 * ONE}, T : {time_to_expiry(-1), time_to_expiry(30)},
   type : {"call", "put"}, sigma : {Null}]

IvInputs == RoundTrips \cup Quotes

InitIV ==
  /\ pc = "start"
  /\ price = 0
  /\ chain = <<>>
  /\ df = NoFrame
  /\ iv_signals = NoFrame
  /\ uoa_signals = NoFrame
  /\ spread_signals = NoFrame
  /\ mispricing_signals = NoFrame
  /\ report = NoFrame
  /\ log = <<>>
  /\ trace = <<>>
  /\ bsIn \in IvInputs
  /\ bsOut = [fn |-> "none"]
  /\ poly = [fn |-> "none"]
  /\ yf = [fn |-> "none"]
  /\ feed = <<>>
  /\ tasks = <<>>

\* sigma = 0.5, entering the loop.
CallImpliedVolatility ==
  /\ bsOut.fn = "none"
  /\ bsOut' = [fn |-> "implied_volatility", pc |-> "loop",
               sigma |-> initial_guess, i |-> 0, how |-> "none"]
  /\ UNCHANGED <<pipeVars, bsIn, poly, yf, feed, tasks>>

\* One pass of  for i in range(max_iter).
IvPass ==
  /\ bsOut.fn = "implied_volatility"
  /\ bsOut.pc = "loop"
  /\ bsOut.i < max_iter
  /\ LET st == iv_step(bsIn.price, bsIn.S, bsIn.K, bsIn.T, RISK_FREE_RATE,
                       bsOut.sigma, bsIn.type)
     IN  bsOut' = [bsOut EXCEPT
                     !.sigma = st.sigma,
                     !.i = @ + 1,
                     !.how = st.how,
                     !.pc = IF st.how = "continue" THEN "loop"
                            ELSE "returned"]
  /\ UNCHANGED <<pipeVars, bsIn, poly, yf, feed, tasks>>

\* The range is exhausted: return sigma.
IvExhausted ==
  /\ bsOut.fn = "implied_volatility"
  /\ bsOut.pc = "loop"
  /\ bsOut.i = max_iter
  /\ bsOut' = [bsOut EXCEPT !.how = "max_iter", !.pc = "returned"]
  /\ UNCHANGED <<pipeVars, bsIn, poly, yf, feed, tasks>>

NextIV == CallImpliedVolatility \/ IvPass \/ IvExhausted

SpecIV == InitIV /\ [][NextIV]_vars

(***************************************************************************)
(* data/polygon_provider.py: get_stock_price and get_option_chain, one     *)
(* action per HTTP response.  A request ends in a 200 with a JSON body, in *)
(* another status, or in an exception raised by aiohttp (connection        *)
(* refused, timeout, a body that is not JSON).                             *)
(***************************************************************************)

\* The most pages one snapshot is followed through by next_url.
MaxPages == 4

\* Two items of the options snapshot, as Polygon sends them.
RawItems ==
  << [details |-> [ticker |-> 1, contract_type |-> "call",
                   strike_price |-> Cents(9000), expiration_date |-> 30],
      day |-> [volume |-> 10],
      last_quote |-> [bid |-> Cents(1150), ask |-> Cents(1250)],
      open_interest |-> 100, implied_volatility |-> <<500000>>,
      greeks |-> [delta |-> <<500000>>]],
     [details |-> [ticker |-> 2, contract_type |-> "put",
                   strike_price |-> Cents(11000), expiration_date |-> 30],
      day |-> [volume |-> 200],
      last_quote |-> [bid |-> Cents(800), ask |-> Cents(810)],
      open_interest |-> 50, implied_volatility |-> <<900000>>,
      greeks |-> [delta |-> <<-600000>>]] >>

\* _normalize_data, for the keys the pipeline reads.
normalize_data(raw_data) ==
  [i \in DOMAIN raw_data |->
     LET item == raw_data[i]
     IN  [symbol |-> item.details.ticker,
          strike |-> item.details.strike_price,
          expiry |-> item.details.expiration_date,
          type |-> item.details.contract_type,
          bid_price |-> item.last_quote.bid,
          ask_price |-> item.last_quote.ask,
          volume |-> item.day.volume,
          open_interest |-> item.open_interest,
          implied_volatility |-> item.implied_volatility,
          delta |-> item.greeks.delta]]

\* What session.get can end in.  "p" is the last trade price of a 200 body
\* (Null: the body has no "results" / "p").
PriceResponses ==
  [kind : {"ok"}, p : {Null, <<100 * ONE>>}]
  \cup [kind : {"status", "error"}, p : {Null}]

\* A 200 body of the snapshot: its results and whether it has a next_url.
PageResponses ==
  [kind : {"ok"},
   results : {<<>>, <<RawItems[1]>>, <<RawItems[2]>>, RawItems},
   next_url : BOOLEAN]
  \cup [kind : {"status", "error"}, results : {<<>>}, next_url : {FALSE}]

\* data.get("results", {}).get("p", 0.0)
last_trade(body) == IF body.p = Null THEN 0 ELSE body.p[1]

InitPoly ==
  /\ pc = "start"
  /\ price = 0
  /\ chain = <<>>
  /\ df = NoFrame
  /\ iv_signals = NoFrame
  /\ uoa_signals = NoFrame
  /\ spread_signals = NoFrame
  /\ mispricing_signals = NoFrame
  /\ report = NoFrame
  /\ log = <<>>
  /\ trace = <<>>
  /\ bsIn = <<>>
  /\ bsOut = [fn |-> "none"]
  /\ poly = [fn |-> "none"]
  /\ yf = [fn |-> "none"]
  /\ feed = <<>>
  /\ tasks = <<>>

\* provider.get_stock_price(symbol), up to the request.
PolyGetStockPrice ==
  /\ poly.fn = "none"
  /\ poly' = [fn |-> "get_stock_price", pc |-> "get", results |-> <<>>,
              pages |-> 0, failed |-> FALSE, value |-> 0]
  /\ UNCHANGED <<pipeVars, bsIn, bsOut, yf, feed, tasks>>

\* The response to the last-trade request.
PolyPriceResponse ==
  /\ poly.fn = "get_stock_price"
  /\ poly.pc = "get"
  /\ \E resp \in PriceResponses :
       poly' = IF resp.kind = "error"
               THEN [poly EXCEPT !.pc = "raised", !.failed = TRUE]
               ELSE IF resp.kind = "status"
               THEN [poly EXCEPT !.pc = "returned", !.failed = TRUE,
                                 !.value = 0]
               ELSE [poly EXCEPT !.pc = "returned",
                                 !.failed = (resp.p = Null),
                                 !.value = last_trade(resp)]
  /\ UNCHANGED <<pipeVars, bsIn, bsOut, yf, feed, tasks>>

\* provider.get_option_chain(symbol), up to the first request.
PolyGetOptionChain ==
  /\ poly.fn = "none"
  /\ poly' = [fn |-> "get_option_chain", pc |-> "get", results |-> <<>>,
              pages |-> 0, failed |-> FALSE, value |-> <<>>]
  /\ UNCHANGED <<pipeVars, bsIn, bsOut, yf, feed, tasks>>

\* The response to one page request inside  while url.
PolyPageResponse ==
  /\ poly.fn = "get_option_chain"
  /\ poly.pc = "get"
  /\ \E resp \in PageResponses :
       /\ resp.next_url => poly.pages + 1 < MaxPages
       /\ poly' =
            IF resp.kind = "error"
            THEN [poly EXCEPT !.pc = "raised", !.failed = TRUE]
            ELSE IF resp.kind = "status"
            THEN [poly EXCEPT !.pc = "returned", !.failed = TRUE,
                              !.value = normalize_data(poly.results)]
            ELSE LET results == poly.results \o resp.results
                 IN  IF resp.next_url
                     THEN [poly EXCEPT !.results = results,
                                       !.pages = @ + 1]
                     ELSE [poly EXCEPT !.results = results,
                                       !.pages = @ + 1,
                                       !.pc = "returned",
                                       !.value = normalize_data(results)]
  /\ UNCHANGED <<pipeVars, bsIn, bsOut, yf, feed, tasks>>

NextPoly ==
  \/ PolyGetStockPrice
  \/ PolyPriceResponse
  \/ PolyGetOptionChain
  \/ PolyPageResponse

SpecPoly == InitPoly /\ [][NextPoly]_vars

(***************************************************************************)
(* main: one process_ticker coroutine per ticker on one event loop,        *)
(* awaited by asyncio.gather.  A coroutine yields at its two awaits (the   *)
(* price and the chain request); everything after the chain is fetched     *)
(* runs without yielding.  The provider is the PolygonProvider, whose      *)
(* calls can raise.                                                        *)
(***************************************************************************)

\* args.tickers
Tickers == {"SPY", "QQQ"}

\* What provider.get_stock_price ends in for one ticker.
PriceResults ==
  [raises : {TRUE}, value : {0}]
  \cup [raises : {FALSE}, value : {0, 95 * ONE, 100 * ONE}]

\* What provider.get_option_chain ends in for one ticker.
ChainResults ==
  [raises : {TRUE}, value : {<<>>}]
  \cup [raises : {FALSE},
        value : {<<>>, normalize_data(<<RawItems[1]>>),
                 normalize_data(RawItems)}]

\* The signal list of process_ticker: the scanners' outputs on the priced
\* table (scan_mispricing on the bucketed one), aggregated.
signal_list(priced, bucketed) ==
  LET all == all_signals(scan_iv(priced), scan_uoa(priced),
                         scan_spreads(priced), scan_mispricing(bucketed))
  IN  IF Len(all) > 0 THEN concat(all) ELSE NoFrame

\* A coroutine that has not got past its first await.
NewTask == [pc |-> "get_stock_price", price |-> 0, df |-> NoFrame,
            report |-> NoFrame]

InitMain ==
  /\ pc = "start"
  /\ price = 0
  /\ chain = <<>>
  /\ df = NoFrame
  /\ iv_signals = NoFrame
  /\ uoa_signals = NoFrame
  /\ spread_signals = NoFrame
  /\ mispricing_signals = NoFrame
  /\ report = NoFrame
  /\ log = <<>>
  /\ trace = <<>>
  /\ bsIn = <<>>
  /\ bsOut = [fn |-> "none"]
  /\ poly = [fn |-> "none"]
  /\ yf = [fn |-> "none"]
  /\ feed \in [Tickers -> [price : PriceResults, chain : ChainResults]]
  /\ tasks = [main |-> "gather", of |-> [t \in Tickers |-> NewTask]]

\* price = await provider.get_stock_price(ticker) resumes in task t.
TaskPrice(t) ==
  /\ tasks.main = "gather"
  /\ tasks.of[t].pc = "get_stock_price"
  /\ LET res == feed[t].price
     IN  tasks' =
           [tasks EXCEPT !.of[t] =
              IF res.raises THEN [@ EXCEPT !.pc = "raised"]
              ELSE IF no_price(res.value)
              THEN [@ EXCEPT !.pc = "returned", !.price = res.value]
              ELSE [@ EXCEPT !.pc = "get_option_chain",
                             !.price = res.value]]
  /\ UNCHANGED <<pipeVars, bsIn, bsOut, poly, yf, feed>>

\* chain = await provider.get_option_chain(ticker) resumes in task t, and
\* the task runs to its end: frame, theoretical prices, scanners, report.
TaskChain(t) ==
  /\ tasks.main = "gather"
  /\ tasks.of[t].pc = "get_option_chain"
  /\ LET res == feed[t].chain
     IN  IF res.raises
         THEN tasks' = [tasks EXCEPT !.of[t].pc = "raised"]
         ELSE IF no_chain(res.value)
         THEN tasks' = [tasks EXCEPT !.of[t].pc = "returned"]
         ELSE \E frame \in {DataFrame(res.value)} :
              \E priced \in {calculate_theoretical_price(frame,
                                                         tasks.of[t].price)} :
              \E bucketed \in {scan_delta(priced)} :
                tasks' = [tasks EXCEPT
                            !.of[t].pc = "returned",
                            !.of[t].df = bucketed,
                            !.of[t].report = signal_list(priced, bucketed)]
  /\ UNCHANGED <<pipeVars, bsIn, bsOut, poly, yf, feed>>

\* await asyncio.gather(*tasks): the first exception of a task is raised
\* in main (no return_exceptions).
GatherRaise ==
  /\ tasks.main = "gather"
  /\ \E t \in Tickers : tasks.of[t].pc = "raised"
  /\ tasks' = [tasks EXCEPT !.main = "raised"]
  /\ UNCHANGED <<pipeVars, bsIn, bsOut, poly, yf, feed>>

\* asyncio.run(main()) ends with main's exception and cancels every task
\* still waiting on a request.
Cancel(t) ==
  /\ tasks.main = "raised"
  /\ tasks.of[t].pc \in {"get_stock_price", "get_option_chain"}
  /\ tasks' = [tasks EXCEPT !.of[t].pc = "cancelled"]
  /\ UNCHANGED <<pipeVars, bsIn, bsOut, poly, yf, feed>>

\* await asyncio.gather(*tasks) returns: every task has returned.
GatherReturn ==
  /\ tasks.main = "gather"
  /\ \A t \in Tickers : tasks.of[t].pc = "returned"
  /\ tasks' = [tasks EXCEPT !.main = "returned"]
  /\ UNCHANGED <<pipeVars, bsIn, bsOut, poly, yf, feed>>

NextMain ==
  \/ \E t \in Tickers : TaskPrice(t)
  \/ \E t \in Tickers : TaskChain(t)
  \/ GatherRaise
  \/ \E t \in Tickers : Cancel(t)
  \/ GatherReturn

SpecMain == InitMain /\ [][NextMain]_vars

(***************************************************************************)
(* data/yfinance_provider.py: get_option_chain.  One _fetch_chain_for_date *)
(* coroutine per expiration, each finishing when its blocking call does,   *)
(* joined by asyncio.gather.                                               *)
(***************************************************************************)

\* The most expiration dates ticker.options lists.
MaxExpirations == 3

\* Expiration dates, as days from today.
Dates == {0, 30, 60, 90}

\* ticker.options: the dates in ascending order.
Expirations ==
  UNION {{e \in [1..k -> Dates] : \A i \in 1..(k - 1) : e[i] < e[i + 1]} :
         k \in 1..MaxExpirations}

\* ticker.option_chain(date): one call and one put row; the put of the
\* 60-day chain has impliedVolatility 0.
option_chain(date) ==
  [calls |-> <<[contractSymbol |-> date * 10 + 1, strike |-> Cents(10000),
                impliedVolatility |-> 500000, bid |-> Cents(200),
                ask |-> Cents(211), volume |-> 10, openInterest |-> 100]>>,
   puts |-> <<[contractSymbol |-> date * 10 + 2, strike |-> Cents(9000),
               impliedVolatility |-> IF date = 60 THEN 0 ELSE 300000,
               bid |-> Cents(50), ask |-> Cents(60), volume |-> 200,
               openInterest |-> 50]>>]

\* _process_dataframe: T floored at one day, greeks only for sigma > 0.
process_dataframe(rows, expiry, option_type, S) ==
  LET T == Max(time_to_expiry(expiry), time_to_expiry(1))
  IN  [i \in DOMAIN rows |->
         LET row == rows[i]
             sigma == row.impliedVolatility
         IN  [symbol |-> row.contractSymbol,
              strike |-> row.strike,
              expiry |-> expiry,
              type |-> option_type,
              bid_price |-> row.bid,
              ask_price |-> row.ask,
              volume |-> row.volume,
              open_interest |-> row.openInterest,
              implied_volatility |-> <<sigma>>,
              delta |-> IF sigma > 0 /\ T > 0
                        THEN <<calculate_greeks(S, row.strike, T,
                                                RISK_FREE_RATE, sigma,
                                                option_type).delta.v>>
                        ELSE Null]]

\* _fetch_chain_for_date: the processed calls, then the processed puts; the
\* empty list when anything in it raises.
fetch_chain_for_date(date, spot_price, outcome) ==
  IF outcome = "error" THEN <<>>
  ELSE LET ch == option_chain(date)
       IN  process_dataframe(ch.calls, date, "call", spot_price)
           \o process_dataframe(ch.puts, date, "put", spot_price)

\* asyncio.gather over the tasks, read in completion order.
gather_as_completed(fetch, order) ==
  [k \in DOMAIN order |-> fetch[order[k]].result]

\* results = await asyncio.gather(*tasks): the results in the order of the
\* task list.
gather(fetch, order) == [i \in DOMAIN fetch |-> fetch[i].result]

\* for res in results: all_options.extend(res)
RECURSIVE extend_all(_)
extend_all(results) ==
  IF Len(results) = 0 THEN <<>>
  ELSE Head(results) \o extend_all(Tail(results))

InitYF ==
  /\ pc = "start"
  /\ price = 0
  /\ chain = <<>>
  /\ df = NoFrame
  /\ iv_signals = NoFrame
  /\ uoa_signals = NoFrame
  /\ spread_signals = NoFrame
  /\ mispricing_signals = NoFrame
  /\ report = NoFrame
  /\ log = <<>>
  /\ trace = <<>>
  /\ bsIn = <<>>
  /\ bsOut = [fn |-> "none"]
  /\ poly = [fn |-> "none"]
  /\ yf = [fn |-> "get_option_chain", pc |-> "get_stock_price",
           spot_price |-> 0, expirations |-> <<>>, fetch |-> <<>>,
           order |-> <<>>, value |-> <<>>]
  /\ feed = <<>>
  /\ tasks = <<>>

\* spot_price = await self.get_stock_price(symbol); 0 is its failure value.
YfSpot ==
  /\ yf.fn = "get_option_chain"
  /\ yf.pc = "get_stock_price"
  /\ \E p \in Prices :
       yf' = IF p = 0
             THEN [yf EXCEPT !.pc = "returned", !.spot_price = p]
             ELSE [yf EXCEPT !.pc = "options", !.spot_price = p]
  /\ UNCHANGED <<pipeVars, bsIn, bsOut, poly, feed, tasks>>

\* expirations = ticker.options raised (caught by the outer except) or is
\* empty: return [].
YfNoExpirations ==
  /\ yf.fn = "get_option_chain"
  /\ yf.pc = "options"
  /\ yf' = [yf EXCEPT !.pc = "returned"]
  /\ UNCHANGED <<pipeVars, bsIn, bsOut, poly, feed, tasks>>

\* tasks = [self._fetch_chain_for_date(ticker, date, spot_price) for date
\* in expirations], handed to asyncio.gather.
YfFanOut ==
  /\ yf.fn = "get_option_chain"
  /\ yf.pc = "options"
  /\ \E e \in Expirations :
       yf' = [yf EXCEPT !.pc = "gather",
                        !.expirations = e,
                        !.fetch = [i \in DOMAIN e |->
                                     [done |-> FALSE, outcome |-> "pending",
                                      result |-> <<>>]]]
  /\ UNCHANGED <<pipeVars, bsIn, bsOut, poly, feed, tasks>>

\* The blocking call of task i comes back (or raises) and the task ends.
YfFetchDone(i) ==
  /\ yf.fn = "get_option_chain"
  /\ yf.pc = "gather"
  /\ ~yf.fetch[i].done
  /\ \E outcome \in {"ok", "error"} :
       yf' = [yf EXCEPT
                !.fetch[i] = [done |-> TRUE, outcome |-> outcome,
                              result |-> fetch_chain_for_date(
                                           yf.expirations[i], yf.spot_price,
                                           outcome)],
                !.order = Append(@, i)]
  /\ UNCHANGED <<pipeVars, bsIn, bsOut, poly, feed, tasks>>

\* gather resumes get_option_chain once every task has ended.
YfJoin ==
  /\ yf.fn = "get_option_chain"
  /\ yf.pc = "gather"
  /\ \A i \in DOMAIN yf.fetch : yf.fetch[i].done
  /\ yf' = [yf EXCEPT !.pc = "returned",
                      !.value = extend_all(gather(yf.fetch, yf.order))]
  /\ UNCHANGED <<pipeVars, bsIn, bsOut, poly, feed, tasks>>

NextYF ==
  \/ YfSpot
  \/ YfNoExpirations
  \/ YfFanOut
  \/ \E i \in 1..MaxExpirations : i \in DOMAIN yf.fetch /\ YfFetchDone(i)
  \/ YfJoin

SpecYF == InitYF /\ [][NextYF]_vars

(***************************************************************************)
(* Properties.                                                             *)
(***************************************************************************)

Ran(step) == step \in Range(trace)

Pos(step) == CHOOSE i \in DOMAIN trace : trace[i] = step

JustRan(step) == Len(trace) > 0 /\ trace[Len(trace)] = step

\* How many rows of the frame belong to symbol sym and carry tag in column col.
Tagged(frame, col, sym, tag) ==
  Cardinality({i \in DOMAIN frame.rows :
                 frame.rows[i].symbol = sym /\ frame.rows[i][col] = tag})

\* The frame built from the chain has one row per contract, in chain order.
RowsKept ==
  /\ Len(df.rows) = Len(chain)
  /\ \A i \in DOMAIN chain : df.rows[i].symbol = chain[i].symbol

C2_NullExcluded ==
  /\ Ran("DataFrame") => RowsKept
  /\ Ran("scan_delta") =>
       \A i \in DOMAIN chain :
         chain[i].delta = Null => df.rows[i].delta_bucket = None
  /\ Ran("scan_iv") =>
       \A i \in DOMAIN chain :
         chain[i].implied_volatility = Null =>
           \A j \in DOMAIN iv_signals.rows :
             iv_signals.rows[j].symbol # chain[i].symbol

\* C3, as claimed: bs_price and calculate_greeks return finite values for
\* every input, non-positive S, T and sigma included (bs_price is finite by
\* its form; the greeks are the part that can fail).
C3_FiniteResults ==
  bsOut.fn = "calculate_greeks" =>
    \A g \in {"delta", "gamma", "theta", "vega", "rho"} :
      IsFinite(bsOut.value[g])

Untouched ==
  /\ df = NoFrame
  /\ iv_signals = NoFrame
  /\ uoa_signals = NoFrame
  /\ spread_signals = NoFrame
  /\ mispricing_signals = NoFrame
  /\ report = NoFrame

\* C4: after a zero spot price, or a non-zero price and an empty chain,
\* process_ticker has returned, its last log line is the skip message, and
\* no enrichment, scanner, report or chart step has run.
C4_SkipsTicker ==
  /\ (Ran("get_stock_price") /\ price = 0) =>
       /\ pc = "returned"
       /\ trace = <<"get_stock_price">>
       /\ log[Len(log)] = Line("error", "Could not fetch price. Skipping.")
       /\ Untouched
  /\ (Ran("get_option_chain") /\ Len(chain) = 0) =>
       /\ pc = "returned"
       /\ trace = <<"get_stock_price", "get_option_chain">>
       /\ log[Len(log)] = Line("warning", "No options data")
       /\ Untouched

\* C4 witness: a non-zero price was followed by an empty chain.
C4_Witness ==
  /\ price # 0
  /\ Ran("get_option_chain")
  /\ Len(chain) = 0
  /\ pc = "returned"

\* C5: scan_mispricing runs only after calculate_theoretical_price has added
\* its columns, and the signal list is built only after scan_iv, scan_uoa,
\* scan_spreads and scan_mispricing have all returned.
C5_Ordering ==
  /\ Ran("scan_mispricing") =>
       /\ Ran("calculate_theoretical_price")
       /\ Pos("calculate_theoretical_price") < Pos("scan_mispricing")
       /\ {"theoretical_price", "mid_price", "mispricing_signal"}
            \subseteq mispricing_signals.cols
  /\ Ran("concat") =>
       \A s \in {"scan_iv", "scan_uoa", "scan_spreads", "scan_mispricing"} :
         Ran(s) /\ Pos(s) < Pos("concat")
  /\ ~is_empty(report) => Ran("concat")

\* C5 witness: a pipeline ran to its end and reported a mispricing signal.
C5_Witness ==
  /\ pc = "returned"
  /\ ~is_empty(mispricing_signals)
  /\ \E j \in DOMAIN report.rows :
       report.rows[j].signal \in {"UNDERPRICED", "OVERPRICED"}

SignalTags ==
  {"BUY_VOL", "SELL_VOL", "UOA_HIGH_VOL", "HIGH_QUALITY", "UNDERPRICED",
   "OVERPRICED"}

Buckets == {"DEEP_ITM", "DIRECTIONAL", "SENSIBLE", "LOTTO", "OTM_JUNK"}

\* How often the four signal scanners gave tag to symbol sym.
Given(sym, tag) ==
  Tagged(iv_signals, "signal", sym, tag)
  + Tagged(uoa_signals, "signal", sym, tag)
  + Tagged(spread_signals, "spread_signal", sym, tag)
  + Tagged(mispricing_signals, "mispricing_signal", sym, tag)

\* C6: the signal list holds one entry per (contract, tag) a signal scanner
\* gave, with the contract's strike, expiry and type, nothing else, and no
\* delta bucket.
C6_OneEntryPerTag ==
  Ran("concat") =>
    /\ \A i \in DOMAIN chain : \A tag \in SignalTags :
         /\ Given(chain[i].symbol, tag) <= 1
         /\ Tagged(report, "signal", chain[i].symbol, tag)
              = Given(chain[i].symbol, tag)
    /\ \A j \in DOMAIN report.rows :
         /\ report.rows[j].signal \in SignalTags
         /\ report.rows[j].signal \notin Buckets
         /\ DOMAIN report.rows[j] = ReportCols
         /\ \E i \in DOMAIN chain :
              /\ report.rows[j].symbol = chain[i].symbol
              /\ report.rows[j].strike = chain[i].strike
              /\ report.rows[j].expiry = chain[i].expiry
              /\ report.rows[j].type = chain[i].type

\* C6 witness: one contract is in the signal list under two different tags.
C6_Witness ==
  /\ Ran("concat")
  /\ \E j, k \in DOMAIN report.rows :
       /\ report.rows[j].symbol = report.rows[k].symbol
       /\ report.rows[j].signal # report.rows[k].signal

\* C7: scan_delta keeps every row, and a contract with a delta gets the one
\* bucket whose interval of |delta| it lies in: [0.70, ..) DEEP_ITM,
\* [0.45, 0.70) DIRECTIONAL, [0.25, 0.45) SENSIBLE, [0.10, 0.25) LOTTO,
\* [0, 0.10) OTM_JUNK.
C7_Buckets ==
  Ran("scan_delta") =>
    /\ RowsKept
    /\ \A i \in DOMAIN chain :
         chain[i].delta # Null =>
           LET a == Abs(chain[i].delta[1])
               b == df.rows[i].delta_bucket
           IN  /\ b \in Buckets
               /\ (b = "DEEP_ITM") <=> (a >= 700000)
               /\ (b = "DIRECTIONAL") <=> (a >= 450000 /\ a < 700000)
               /\ (b = "SENSIBLE") <=> (a >= 250000 /\ a < 450000)
               /\ (b = "LOTTO") <=> (a >= 100000 /\ a < 250000)
               /\ (b = "OTM_JUNK") <=> (a < 100000)

\* C7 witness: contracts exactly on a boundary and just below one were
\* classified.
C7_Witness ==
  /\ Ran("scan_delta")
  /\ \E i, j \in DOMAIN df.rows :
       /\ df.rows[i].abs_delta = 450000
       /\ df.rows[i].delta_bucket = "DIRECTIONAL"
       /\ df.rows[j].abs_delta = 699999
       /\ df.rows[j].delta_bucket = "DIRECTIONAL"

\* C8: mid_price is (bid + ask) / 2; a row is UNDERPRICED exactly when
\* 0 < mid < 0.9 * theoretical, OVERPRICED exactly when mid > 0 and
\* mid > 1.1 * theoretical, untagged otherwise; scan_mispricing returns
\* exactly the tagged rows.
C8_MispricingTags ==
  /\ "mispricing_signal" \in df.cols =>
       \A i \in DOMAIN df.rows :
         LET row  == df.rows[i]
             mid  == row.mid_price
             theo == row.theoretical_price
         IN  /\ 2 * mid = row.bid_price + row.ask_price
             /\ row.mispricing_signal \in {"UNDERPRICED", "OVERPRICED", None}
             /\ (row.mispricing_signal = "UNDERPRICED")
                  <=> (0 < mid /\ 10 * mid < 9 * theo)
             /\ (row.mispricing_signal = "OVERPRICED")
                  <=> (0 < mid /\ 10 * mid > 11 * theo)
  /\ (Ran("scan_mispricing") /\ "mispricing_signal" \in df.cols) =>
       /\ \A i \in DOMAIN df.rows :
            Cardinality({j \in DOMAIN mispricing_signals.rows :
                           mispricing_signals.rows[j].symbol
                             = df.rows[i].symbol})
              = IF df.rows[i].mispricing_signal = None THEN 0 ELSE 1
       /\ \A j \in DOMAIN mispricing_signals.rows :
            \E i \in DOMAIN df.rows :
              /\ df.rows[i].symbol = mispricing_signals.rows[j].symbol
              /\ df.rows[i].mispricing_signal
                   = mispricing_signals.rows[j].mispricing_signal

\* C8 witness: scan_mispricing returned an underpriced row and left out a
\* row with a zero mid price.
C8_Witness ==
  /\ Ran("scan_mispricing")
  /\ \E j \in DOMAIN mispricing_signals.rows :
       mispricing_signals.rows[j].mispricing_signal = "UNDERPRICED"
  /\ \E i \in DOMAIN df.rows :
       /\ df.rows[i].mid_price = 0
       /\ df.rows[i].theoretical_price > 0
       /\ df.rows[i].mispricing_signal = None

\* C9: scan_iv returns only rows with volume > 0; such a row is there as
\* BUY_VOL exactly when its implied volatility is below 0.20, as SELL_VOL
\* exactly when it is above 0.80, never as both, and not at all in between.
C9_IvTags ==
  Ran("scan_iv") =>
    /\ \A i \in DOMAIN df.rows :
         LET row == df.rows[i]
         IN  /\ Tagged(iv_signals, "signal", row.symbol, "BUY_VOL")
                  = IF row.volume > 0 /\ row.implied_volatility < 200000
                    THEN 1 ELSE 0
             /\ Tagged(iv_signals, "signal", row.symbol, "SELL_VOL")
                  = IF row.volume > 0 /\ row.implied_volatility > 800000
                    THEN 1 ELSE 0
             /\ Tagged(iv_signals, "signal", row.symbol, "BUY_VOL")
                  + Tagged(iv_signals, "signal", row.symbol, "SELL_VOL") <= 1
    /\ \A j \in DOMAIN iv_signals.rows :
         /\ iv_signals.rows[j].volume > 0
         /\ iv_signals.rows[j].signal \in {"BUY_VOL", "SELL_VOL"}
         /\ \E i \in DOMAIN df.rows :
              df.rows[i].symbol = iv_signals.rows[j].symbol

\* C9 witness: a liquid row at the low threshold was left out and a liquid
\* row below it was tagged.
C9_Witness ==
  /\ Ran("scan_iv")
  /\ \E i \in DOMAIN df.rows :
       /\ df.rows[i].volume > 0
       /\ df.rows[i].implied_volatility = 200000
       /\ Tagged(iv_signals, "signal", df.rows[i].symbol, "BUY_VOL") = 0
  /\ \E j \in DOMAIN iv_signals.rows :
       /\ iv_signals.rows[j].signal = "BUY_VOL"
       /\ iv_signals.rows[j].implied_volatility = 150000

\* C10: scan_uoa returns a row, as UOA_HIGH_VOL, exactly when its volume is
\* above its open interest and above 50, both strictly.
C10_UoaTags ==
  Ran("scan_uoa") =>
    /\ \A i \in DOMAIN df.rows :
         LET row == df.rows[i]
         IN  Tagged(uoa_signals, "signal", row.symbol, "UOA_HIGH_VOL")
               = IF row.volume > row.open_interest /\ row.volume > 50
                 THEN 1 ELSE 0
    /\ \A j \in DOMAIN uoa_signals.rows :
         /\ uoa_signals.rows[j].signal = "UOA_HIGH_VOL"
         /\ \E i \in DOMAIN df.rows :
              df.rows[i].symbol = uoa_signals.rows[j].symbol

\* C10 witness: a row with volume 40 above open interest 10 was left out
\* and a row with volume 200 above open interest 50 was tagged.
C10_Witness ==
  /\ Ran("scan_uoa")
  /\ \E i \in DOMAIN df.rows :
       /\ df.rows[i].volume = 40
       /\ df.rows[i].open_interest = 10
       /\ Tagged(uoa_signals, "signal", df.rows[i].symbol, "UOA_HIGH_VOL") = 0
  /\ \E j \in DOMAIN uoa_signals.rows :
       /\ uoa_signals.rows[j].volume = 200
       /\ uoa_signals.rows[j].open_interest = 50

\* C11, as claimed: once scan_spreads has run, a row of the table is tagged
\* HIGH_QUALITY exactly when its spread (ask - bid) is below 0.10 or its
\* spread_pct is below 0.05, and the spread_pct of a row whose ask is 0 is
\* zero and never the quotient of a division by zero (an infinity or a NaN).
C11_GuardedSpreadPct ==
  Ran("scan_spreads") =>
    /\ \A i \in DOMAIN df.rows :
         LET row == df.rows[i]
             pct == FDiv(Fin(row.ask_price - row.bid_price), Fin(row.ask_price))
         IN  Tagged(spread_signals, "spread_signal", row.symbol, "HIGH_QUALITY")
               = IF \/ row.ask_price - row.bid_price < 100000
                     \/ FLess(pct, 50000)
                 THEN 1 ELSE 0
    /\ \A j \in DOMAIN spread_signals.rows :
         LET row == spread_signals.rows[j]
         IN  row.ask_price = 0 => row.spread_pct = Fin(0)

\* The solver has been called / has returned.
IvRunning == bsOut.fn = "implied_volatility" /\ bsOut.pc = "loop"

IvReturned == bsOut.fn = "implied_volatility" /\ bsOut.pc = "returned"

\* price - bs_price at the solver's current sigma.
IvDiff ==
  bsIn.price - bs_price(bsIn.S, bsIn.K, bsIn.T, RISK_FREE_RATE, bsOut.sigma,
                        bsIn.type)

IvVega == iv_vega(bsIn.S, bsIn.K, bsIn.T, RISK_FREE_RATE, bsOut.sigma)

InClamp(sigma) == 100 <= sigma /\ sigma <= 5 * ONE

\* C12: implied_volatility makes at most max_iter passes and then returns;
\* a pass that finds |price - model price| < tol returns the sigma it
\* tested, a pass that finds vega exactly 0 stops with sigma unchanged, and
\* every other pass leaves a sigma clamped into [1e-4, 5.0]; so the value
\* returned is the initial guess 0.5 or lies in [1e-4, 5.0].
C12_Terminates ==
  /\ [](bsOut.fn = "implied_volatility" =>
          /\ bsOut.i <= max_iter
          /\ (IvRunning /\ bsOut.i > 0) => InClamp(bsOut.sigma)
          /\ IvReturned =>
               /\ bsOut.sigma = initial_guess \/ InClamp(bsOut.sigma)
               /\ bsOut.how = "return" => Abs(IvDiff) < tol
               /\ bsOut.how = "break" => IvVega = Fin(0)
               /\ bsOut.how = "max_iter" => bsOut.i = max_iter)
  /\ [][IvRunning =>
          /\ IvReturned'
               => /\ bsOut'.sigma = bsOut.sigma
                  /\ \/ bsOut.i = max_iter
                     \/ Abs(IvDiff) < tol
                     \/ IvVega = Fin(0)
          /\ IvRunning'
               => /\ bsOut.i < max_iter
                  /\ Abs(IvDiff) >= tol
                  /\ IvVega # Fin(0)
                  /\ bsOut'.i = bsOut.i + 1]_vars

\* C12 witness: the quote 200.00 is above every model price, each pass
\* pushed sigma against the upper clamp, and the solver returned 5.0 after
\* max_iter passes.
C12_Witness ==
  /\ IvReturned
  /\ bsOut.how = "max_iter"
  /\ bsOut.i = max_iter
  /\ bsOut.sigma = 5 * ONE
  /\ bsIn.price = Cents(20000)

WellConditioned ==
  /\ bsIn.sigma \in {<<200000>>, <<800000>>}
  /\ bsIn.T > 0
  /\ bsIn.K \in {90 * ONE, 100 * ONE, 110 * ONE}

C14_NeverRaises ==
  (poly.fn # "none" /\ poly.pc # "get") =>
    /\ poly.pc = "returned"
    /\ poly.failed =>
         poly.value = IF poly.fn = "get_stock_price" THEN 0 ELSE <<>>

\* The enriched table and the signal list process_ticker makes of a spot
\* price and a chain.
run_pipeline(spot, c) ==
  LET priced   == calculate_theoretical_price(DataFrame(c), spot)
      bucketed == scan_delta(priced)
  IN  [df |-> bucketed, report |-> signal_list(priced, bucketed)]

\* What process_ticker makes of one ticker's responses when it is the only
\* ticker given to main.
Alone(f) ==
  IF f.price.raises THEN [NewTask EXCEPT !.pc = "raised"]
  ELSE IF no_price(f.price.value)
  THEN [NewTask EXCEPT !.pc = "returned", !.price = f.price.value]
  ELSE IF f.chain.raises
  THEN [NewTask EXCEPT !.pc = "raised", !.price = f.price.value]
  ELSE IF no_chain(f.chain.value)
  THEN [NewTask EXCEPT !.pc = "returned", !.price = f.price.value]
  ELSE LET out == run_pipeline(f.price.value, f.chain.value)
       IN  [pc |-> "returned", price |-> f.price.value, df |-> out.df,
            report |-> out.report]

\* main is over: gather has returned or raised, and no task is left
\* waiting.
MainOver ==
  /\ tasks.main \in {"returned", "raised"}
  /\ \A t \in Tickers :
       tasks.of[t].pc \notin {"get_stock_price", "get_option_chain"}

\* C15, as claimed: when main is over, whatever the interleaving, every
\* ticker has the enriched table and the signal list it has when run alone
\* on the same responses; in particular no ticker is kept from completing
\* by what happened to another.
C15_Isolated ==
  MainOver =>
    \A t \in Tickers :
      /\ tasks.of[t].df = Alone(feed[t]).df
      /\ tasks.of[t].report = Alone(feed[t]).report

\* The contracts expiration i is due to contribute: none if its fetch
\* failed, else its processed calls and puts.
Contribution(i) ==
  IF yf.fetch[i].outcome = "error" THEN <<>>
  ELSE fetch_chain_for_date(yf.expirations[i], yf.spot_price, "ok")

RECURSIVE InListOrder(_)
InListOrder(k) ==
  IF k = 0 THEN <<>> ELSE InListOrder(k - 1) \o Contribution(k)

\* C16: get_option_chain has one fetch task per expiration date while it
\* waits, returns from the wait only when every task has finished, and
\* returns the per-expiration results concatenated in the order of the
\* expiration list whatever order the tasks finished in, a failed
\* expiration contributing nothing and the others everything they fetched.
C16_FanIn ==
  /\ yf.fn = "get_option_chain" /\ yf.pc = "gather" =>
       DOMAIN yf.fetch = DOMAIN yf.expirations
  /\ (yf.fn = "get_option_chain" /\ yf.pc = "returned"
        /\ Len(yf.expirations) > 0) =>
       /\ \A i \in DOMAIN yf.fetch : yf.fetch[i].done
       /\ Len(yf.order) = Len(yf.expirations)
       /\ yf.value = InListOrder(Len(yf.expirations))

\* C16 witness: three expirations whose tasks finished last-first, the
\* middle one failing; the call returned the first and the third
\* expiration's contracts, in that order.
C16_Witness ==
  /\ yf.fn = "get_option_chain"
  /\ yf.pc = "returned"
  /\ Len(yf.expirations) = 3
  /\ yf.order = <<3, 2, 1>>
  /\ yf.fetch[2].outcome = "error"
  /\ yf.fetch[1].outcome = "ok"
  /\ yf.fetch[3].outcome = "ok"
  /\ Len(yf.value) = 4
  /\ yf.value[1].expiry = yf.expirations[1]
  /\ yf.value[4].expiry = yf.expirations[3]
====
